---- MODULE Spec2Model ----
(***************************************************************************)
(* Model of the abssas replica client (src/abssas/replica_sasclient.go):   *)
(* the remote container, the lazily initialised container handle, the      *)
(* single-object operations and the two background iterators.              *)
(*                                                                         *)
(* Strings whose content matters (object names) are sequences of ASCII     *)
(* codes, so that formatting, parsing and the store's lexicographic        *)
(* listing order are computed and not assumed.  Timestamps (CreatedAt) are *)
(* left out: nothing in the client reads them.                             *)
(***************************************************************************)
EXTENDS Integers, Sequences, FiniteSets, TLC

VARIABLES
    \* ---- remote container and metrics
    store,        \* set of blobs [gen, kind, name, size] held by the container
    written,      \* history: snapshots acknowledged as written and not deleted since
    phase,        \* "new": before NewReplicaClient; "init": Init callers only;
                  \* "del": DeleteGeneration, then Generations;
                  \* "ops": no iterator open; "iter": one is open; "end": nothing more
    listCount,    \* OperationTotalCounterVec{abssas, LIST}
    \* ---- ReplicaClient
    sasURLOk,     \* whether url.Parse(c.sasURL) succeeds
    containerURL, \* c.containerURL: 0 is nil, otherwise the identity of the handle
    built,        \* history: number of azblob.NewContainerURL constructions
    mu,           \* c.mu: 0 is unlocked, otherwise the caller holding it
    ipc,          \* position of each concurrent Init caller
    initRet,      \* what each caller's last Init returned ("none" before)
    initSawSet,   \* history: containerURL was already set when the caller's Init began
    calls,        \* history: number of Init calls each caller has begun
    \* ---- iterator (snapshotIterator / walSegmentIterator)
    itrKind,      \* "snapshots" or "wal"
    itrGen,       \* itr.generation
    cancelled,    \* itr.ctx is done
    fpc,          \* position of the fetch goroutine
    marker,       \* fetch's local marker
    reqStale,     \* the page request in flight was issued with a done context
    page,         \* items of resp.Segment.BlobItems not yet ranged over
    offer,        \* the info the fetch goroutine holds in its select
    chClosed,     \* itr.ch is closed
    taskErr,      \* what fetch returned (itr.g.Wait())
    itrErr,       \* itr.err
    itrInfo,      \* itr.info
    cpc,          \* consumer: "idle" or "next" (inside Next's select)
    nextAfterCancel, \* history: the context was done when the current/last Next began
    lastNext,     \* history: result of the last Next ("none", "true", "false")
    nextAfterFalse,  \* history: a Next had returned false when the current/last Next began
    yielded,      \* history: the infos captured by true-returning Next calls
    offered,      \* history: number of infos fetch has brought to its select
    dropped,      \* history: number of infos fetch gave up on ctx.Done
    clpc,         \* Close: "idle", "waiting" (in g.Wait), "returned"
    closeErr,     \* Close's local err
    closeResult,  \* what Close returned
    closeAt,      \* history: where fetch was when Close was called
    \* ---- calls of the public operations
    ret,          \* history: the last call of an operation that returns at once, and its result
    listBase,     \* history: the LIST counter when the listing in hand began
    counted,      \* OperationTotalCounterVec{abssas, PUT / GET / DELETE}: what the
                  \* call in hand, or the last call, has added to each
    \* ---- DeleteGeneration
    dpc,          \* position of the DeleteGeneration call: "idle", "loop", "items", "done"
    dGen,         \* its generation argument
    dMarker,      \* its local marker
    dPage,        \* items of resp.Segment.BlobItems not yet ranged over
    dRet,         \* the error it returned, once it is "done"
    dDone,        \* history: the items whose Delete came back without error, in
                  \* order, each with whether the remote reported it not found
    dWrote,       \* history: another client wrote under the generation during the call
    dLost         \* history: another client deleted under the generation during the call

clientVars == <<sasURLOk, containerURL, built, mu, ipc, initRet, initSawSet, calls>>
storeVars == <<store, written, phase>>
fetchVars == <<fpc, marker, reqStale, page, offer, chClosed, taskErr, offered, dropped>>
consVars == <<itrInfo, cpc, nextAfterCancel, nextAfterFalse, lastNext, yielded>>
closeVars == <<clpc, closeErr, closeResult, closeAt>>
itrVars == <<itrKind, itrGen, cancelled, itrErr, fetchVars, consVars, closeVars>>
delVars == <<dpc, dGen, dMarker, dPage, dRet, dDone, dWrote, dLost>>
opVars == <<ret, listBase, counted, delVars>>
vars == <<storeVars, listCount, clientVars, itrVars, opVars>>

-----------------------------------------------------------------------------
(* Bounds of the model *)

\* number of blobs one listing page holds at most
PageSize == 2
\* number of goroutines calling Init concurrently
NumCallers == 2
\* number of Init calls each caller makes at most
MaxInitCalls == 3
\* number of positions a DeleteWALSegments call is given at most
MaxPositions == 3
\* length of the URL paths NewReplicaClient is given at most
MaxPathLen == 4

-----------------------------------------------------------------------------
(* Strings as sequences of ASCII codes *)

\* ".snapshot.lz4"
SnapshotExt == <<46, 115, 110, 97, 112, 115, 104, 111, 116, 46, 108, 122, 52>>
\* ".wal.lz4"
WALSegmentExt == <<46, 119, 97, 108, 46, 108, 122, 52>>
\* "not-a-valid-key"
JunkName == <<110, 111, 116, 45, 97, 45, 118, 97, 108, 105, 100, 45, 107, 101, 121>>
\* ".tmp"
TmpExt == <<46, 116, 109, 112>>
\* "_"
Underscore == 95

\* width of the hexadecimal rendering of an index or offset (%08x)
HexWidth == 8

Pow16(k) == IF k = 0 THEN 1 ELSE IF k = 1 THEN 16 ELSE IF k = 2 THEN 256
            ELSE IF k = 3 THEN 4096 ELSE IF k = 4 THEN 65536
            ELSE IF k = 5 THEN 1048576 ELSE IF k = 6 THEN 16777216
            ELSE 268435456

\* a hexadecimal digit as fmt's %x prints it: '0'..'9', 'a'..'f'
HexChar(d) == IF d < 10 THEN 48 + d ELSE 87 + d
IsHexChar(c) == (c >= 48 /\ c <= 57) \/ (c >= 97 /\ c <= 102)
HexVal(c) == IF c <= 57 THEN c - 48 ELSE c - 87

\* fmt.Sprintf("%08x", n) for 0 <= n < 16^8
FormatHex(n) == [i \in 1..HexWidth |-> HexChar((n \div Pow16(HexWidth - i)) % 16)]

\* the number the first n hexadecimal digits of s denote
RECURSIVE ParseHexPrefix(_, _)
ParseHexPrefix(s, n) ==
    IF n = 0 THEN 0 ELSE 16 * ParseHexPrefix(s, n - 1) + HexVal(s[n])

\* strconv.ParseInt(s, 16, 64) of a string of hexadecimal digits
ParseHex(s) == ParseHexPrefix(s, Len(s))

IsHexString(s) == \A i \in 1..Len(s) : IsHexChar(s[i])

\* a < b from position i on, the bytes before i being equal
RECURSIVE LexLessFrom(_, _, _)
LexLessFrom(a, b, i) ==
    IF i > Len(b) THEN FALSE
    ELSE IF i > Len(a) THEN TRUE
    ELSE IF a[i] # b[i] THEN a[i] < b[i]
    ELSE LexLessFrom(a, b, i + 1)

\* strings.Compare(a, b) < 0: the byte-wise order the store lists names in
LexLess(a, b) == LexLessFrom(a, b, 1)

-----------------------------------------------------------------------------
(* Path codec (package litestream) *)

Generations == {"g1", "g2"}
BadGeneration == "bad"
IsGenerationName(g) == g \in Generations

\* litestream.FormatSnapshotPath / the file part of litestream.SnapshotPath
FormatSnapshotPath(index) == FormatHex(index) \o SnapshotExt

\* litestream.ParseSnapshotPath: [ok, index]
ParseSnapshotPath(s) ==
    IF /\ Len(s) = HexWidth + Len(SnapshotExt)
       /\ SubSeq(s, HexWidth + 1, Len(s)) = SnapshotExt
       /\ IsHexString(SubSeq(s, 1, HexWidth))
    THEN [ok |-> TRUE, index |-> ParseHex(SubSeq(s, 1, HexWidth))]
    ELSE [ok |-> FALSE, index |-> 0]

\* litestream.FormatWALSegmentPath / the file part of litestream.WALSegmentPath
FormatWALSegmentPath(index, offset) ==
    FormatHex(index) \o <<Underscore>> \o FormatHex(offset) \o WALSegmentExt

\* litestream.ParseWALSegmentPath: [ok, index, offset]
ParseWALSegmentPath(s) ==
    IF /\ Len(s) = 2 * HexWidth + 1 + Len(WALSegmentExt)
       /\ SubSeq(s, 2 * HexWidth + 2, Len(s)) = WALSegmentExt
       /\ s[HexWidth + 1] = Underscore
       /\ IsHexString(SubSeq(s, 1, HexWidth))
       /\ IsHexString(SubSeq(s, HexWidth + 2, 2 * HexWidth + 1))
    THEN [ok |-> TRUE,
          index |-> ParseHex(SubSeq(s, 1, HexWidth)),
          offset |-> ParseHex(SubSeq(s, HexWidth + 2, 2 * HexWidth + 1))]
    ELSE [ok |-> FALSE, index |-> 0, offset |-> 0]

-----------------------------------------------------------------------------
(* The remote container *)

Blob(g, k, n, sz) == [gen |-> g, kind |-> k, name |-> n, size |-> sz]

\* a prefix that leaves the generation out
UnderAnyGeneration(s, g, k) == {b \in s : b.kind = k}

\* the blobs whose name starts with dir + "/"
Under(s, g, k) == {b \in s : b.gen = g /\ b.kind = k}

\* azblob.Marker: the zero Marker starts the listing, a NextMarker naming a blob
\* continues after it, the empty NextMarker ends it
StartMarker == [done |-> FALSE, after |-> <<>>]
DoneMarker == [done |-> TRUE, after |-> <<>>]
ContinueMarker(n) == [done |-> FALSE, after |-> n]

\* a counter that is not incremented
IncNothing(c) == c

\* OperationTotalCounterVec.WithLabelValues(ReplicaClientType, "LIST").Inc()
Inc(c) == c + 1

\* a loop that stops after its first page
NotDoneFirstPageOnly(m) == m = StartMarker

\* Marker.NotDone
NotDone(m) == ~m.done

\* the number of blobs of bs whose name is before n
Rank(bs, n) == Cardinality({c \in bs : LexLess(c.name, n)})

\* the blobs of bs (whose names differ) in lexicographic order of their names
SortByName(bs) ==
    [i \in 1..Cardinality(bs) |-> CHOOSE b \in bs : Rank(bs, b.name) = i - 1]

Take(s, n) == SubSeq(s, 1, IF Len(s) < n THEN Len(s) ELSE n)

\* the page at the head of a sorted listing, and the marker of the next page
PageOf(sorted) ==
    [items |-> Take(sorted, PageSize),
     next |-> IF Len(sorted) > PageSize
              THEN ContinueMarker(sorted[PageSize].name)
              ELSE DoneMarker]

\* the blobs under the prefix that a listing continued at marker m still has
\* to deliver
After(s, g, k, m) == {b \in Under(s, g, k) : LexLess(m.after, b.name)}

\* containerURL.ListBlobsFlatSegment(ctx, marker, {Prefix}): one page of the
\* blobs under the prefix, in lexicographic order of their names, and the
\* marker of the next page
ListBlobsFlatSegment(s, g, k, m) ==
    CHOOSE r \in {PageOf(sorted) :
                    sorted \in {SortByName(rest) : rest \in {After(s, g, k, m)}}} : TRUE

\* the whole listing under a prefix, in the order the pages deliver it
Listing(s, g, k) == SortByName(Under(s, g, k))

-----------------------------------------------------------------------------
(* Iterators: litestream.SnapshotInfo, litestream.WALSegmentInfo *)

SnapshotInfo(g, i, sz) == [generation |-> g, index |-> i, size |-> sz]
WALSegmentInfo(g, i, o, sz) == [generation |-> g, index |-> i, offset |-> o, size |-> sz]

\* the zero value of the info struct
ZeroInfo(k) == IF k = "snapshots" THEN SnapshotInfo("", 0, 0)
               ELSE WALSegmentInfo("", 0, 0, 0)

\* a parse that takes every name, giving index 0 to those it cannot read
ItemInfoNoSkip(k, g, item) ==
    IF k = "snapshots"
    THEN LET p == ParseSnapshotPath(item.name)
         IN [ok |-> TRUE, info |-> SnapshotInfo(g, p.index, item.size)]
    ELSE LET p == ParseWALSegmentPath(item.name)
         IN [ok |-> TRUE, info |-> WALSegmentInfo(g, p.index, p.offset, item.size)]

\* an info built without the size of the blob
ItemInfoWithoutSize(k, g, item) ==
    IF k = "snapshots"
    THEN LET p == ParseSnapshotPath(item.name)
         IN [ok |-> p.ok, info |-> SnapshotInfo(g, p.index, 0)]
    ELSE LET p == ParseWALSegmentPath(item.name)
         IN [ok |-> p.ok, info |-> WALSegmentInfo(g, p.index, p.offset, 0)]

\* lines 414-425 / 522-534: the base name of the item parsed into an info
\* ([ok |-> FALSE] when the name does not parse and the item is skipped)
ItemInfo(k, g, item) ==
    IF k = "snapshots"
    THEN LET p == ParseSnapshotPath(item.name)
         IN [ok |-> p.ok, info |-> SnapshotInfo(g, p.index, item.size)]
    ELSE LET p == ParseWALSegmentPath(item.name)
         IN [ok |-> p.ok, info |-> WALSegmentInfo(g, p.index, p.offset, item.size)]

\* path functions that accept any generation
PathOkAny(g) == TRUE

\* litestream.SnapshotsPath / litestream.WALPath fail on a malformed generation
PathOk(g) == IsGenerationName(g)

\* the state newSnapshotIterator / newWALSegmentIterator leaves: the channel
\* made, the context derived, the fetch goroutine started
NewIterator(k, g) ==
    /\ itrKind' = k
    /\ itrGen' = g
    /\ cancelled' = FALSE
    /\ itrErr' = "nil"
    /\ fpc' = "start"
    /\ marker' = StartMarker
    /\ reqStale' = FALSE
    /\ page' = <<>>
    /\ offer' = ZeroInfo(k)
    /\ chClosed' = FALSE
    /\ taskErr' = "nil"
    /\ offered' = 0
    /\ dropped' = 0
    /\ itrInfo' = ZeroInfo(k)
    /\ cpc' = "idle"
    /\ nextAfterCancel' = FALSE
    /\ nextAfterFalse' = FALSE
    /\ lastNext' = "none"
    /\ yielded' = <<>>
    /\ clpc' = "idle"
    /\ closeErr' = "nil"
    /\ closeResult' = "nil"
    /\ closeAt' = "none"

\* fetch returns e: the deferred close(itr.ch) runs and g.Wait() will give e
FetchReturn(e) ==
    /\ fpc' = "done"
    /\ taskErr' = e
    /\ chClosed' = TRUE

\* lines 396-399 / 504-507: the directory of the listing, or the path error
FetchStart ==
    /\ phase = "iter"
    /\ fpc = "start"
    /\ IF PathOk(itrGen)
       THEN /\ fpc' = "loop"
            /\ UNCHANGED <<taskErr, chClosed>>
       ELSE FetchReturn("errPath")
    /\ UNCHANGED <<marker, reqStale, page, offer, offered, dropped>>
    /\ UNCHANGED <<storeVars, opVars, listCount, clientVars, itrKind, itrGen, cancelled,
                   itrErr, consVars, closeVars>>

\* lines 402-407 / 510-515: the loop condition, the LIST counter and the page
\* request, which is then in flight; line 433 / 542 when the marker is done
FetchLoop ==
    /\ phase = "iter"
    /\ fpc = "loop"
    /\ IF NotDone(marker)
       THEN /\ listCount' = Inc(listCount)
            /\ reqStale' = cancelled
            /\ fpc' = "request"
            /\ UNCHANGED <<taskErr, chClosed>>
       ELSE /\ FetchReturn("nil")
            /\ UNCHANGED <<listCount, reqStale>>
    /\ UNCHANGED <<marker, page, offer, offered, dropped>>
    /\ UNCHANGED <<storeVars, opVars, clientVars, itrKind, itrGen, cancelled,
                   itrErr, consVars, closeVars>>

\* what a page request can come back with: a request issued with a done
\* context fails with the context's error; one in flight when the context is
\* cancelled may still complete, fail, or be aborted
PageOutcomes ==
    IF reqStale THEN {"errCanceled"}
    ELSE IF cancelled THEN {"ok", "errList", "errCanceled"}
    ELSE {"ok", "errList"}

\* lines 407-411 / 515-519: the page request returns
FetchResponse ==
    /\ phase = "iter"
    /\ fpc = "request"
    /\ \E out \in PageOutcomes :
        IF out = "ok"
        THEN \E resp \in {ListBlobsFlatSegment(store, itrGen, itrKind, marker)} :
                /\ marker' = resp.next
                /\ page' = resp.items
                /\ fpc' = "items"
                /\ UNCHANGED <<taskErr, chClosed>>
        ELSE /\ FetchReturn(out)
             /\ UNCHANGED <<marker, page>>
    /\ UNCHANGED <<reqStale, offer, offered, dropped>>
    /\ UNCHANGED <<storeVars, opVars, listCount, clientVars, itrKind, itrGen, cancelled,
                   itrErr, consVars, closeVars>>

\* a range that takes the items from the end of the page
NextItemFromEnd(items) == items[Len(items)]

\* the item the range loop takes next
NextItem(items) == Head(items)
RestItems(items) == Tail(items)

\* lines 413-425 / 521-534: the range over the page's items; an item whose
\* name does not parse is skipped, one that parses is brought to the select
FetchItem ==
    /\ phase = "iter"
    /\ fpc = "items"
    /\ IF page = <<>>
       THEN /\ fpc' = "loop"
            /\ UNCHANGED <<page, offer, offered>>
       ELSE \E r \in {ItemInfo(itrKind, itrGen, NextItem(page))} :
               /\ page' = RestItems(page)
               /\ IF r.ok
                  THEN /\ offer' = r.info
                       /\ offered' = offered + 1
                       /\ fpc' = "select"
                  ELSE UNCHANGED <<fpc, offer, offered>>
    /\ UNCHANGED <<marker, reqStale, chClosed, taskErr, dropped>>
    /\ UNCHANGED <<storeVars, opVars, listCount, clientVars, itrKind, itrGen, cancelled,
                   itrErr, consVars, closeVars>>

\* a select with a default case: the info is given up when no consumer waits
FetchSelectDefault ==
    /\ phase = "iter"
    /\ fpc = "select"
    /\ fpc' = "items"
    /\ dropped' = dropped + 1
    /\ UNCHANGED <<marker, reqStale, page, offer, chClosed, taskErr, offered>>
    /\ UNCHANGED <<storeVars, opVars, listCount, clientVars, itrKind, itrGen, cancelled,
                   itrErr, consVars, closeVars>>

\* a plain send in place of the select: fetch never looks at the context
FetchPlainSend ==
    /\ FALSE
    /\ UNCHANGED vars

\* line 428 / 537: case <-itr.ctx.Done() of fetch's select; the info is given up
FetchCtxDone ==
    /\ phase = "iter"
    /\ fpc = "select"
    /\ cancelled
    /\ fpc' = "items"
    /\ dropped' = dropped + 1
    /\ UNCHANGED <<marker, reqStale, page, offer, chClosed, taskErr, offered>>
    /\ UNCHANGED <<storeVars, opVars, listCount, clientVars, itrKind, itrGen, cancelled,
                   itrErr, consVars, closeVars>>

\* a hand-off that the done context does not prevent
CanHandOffWhenDone == fpc = "select" /\ cpc = "next"

\* Whether the hand-off on itr.ch can happen.  Both selects also wait on
\* itr.ctx.Done(): closing the done channel claims every goroutine blocked in
\* such a select (runtime closechan dequeues them under the channel lock), and a
\* select entered afterwards finds the done case ready and never queues on
\* itr.ch.  So no hand-off happens once the context is done.
CanHandOff == fpc = "select" /\ cpc = "next" /\ ~cancelled

\* lines 429 and 459-464 (538 and 568-573): the send of fetch's select meets
\* the receive of Next's select; Next stores the info and returns true
HandOff ==
    /\ phase = "iter"
    /\ CanHandOff
    /\ itrInfo' = offer
    /\ yielded' = Append(yielded, offer)
    /\ lastNext' = "true"
    /\ cpc' = "idle"
    /\ fpc' = "items"
    /\ UNCHANGED <<nextAfterCancel, nextAfterFalse>>
    /\ UNCHANGED <<marker, reqStale, page, offer, chClosed, taskErr, offered, dropped>>
    /\ UNCHANGED <<storeVars, opVars, listCount, clientVars, itrKind, itrGen, cancelled,
                   itrErr, closeVars>>

\* lines 448-455 / 557-564: Next is called; a recorded error returns false at
\* once, otherwise Next enters its select
NextCall ==
    /\ phase = "iter"
    /\ cpc = "idle"
    /\ nextAfterCancel' = cancelled
    /\ nextAfterFalse' = (lastNext = "false")
    /\ IF itrErr # "nil"
       THEN /\ lastNext' = "false"
            /\ UNCHANGED cpc
       ELSE /\ cpc' = "next"
            /\ UNCHANGED lastNext
    /\ UNCHANGED <<itrInfo, yielded>>
    /\ UNCHANGED <<storeVars, opVars, listCount, clientVars, itrKind, itrGen, cancelled,
                   itrErr, fetchVars, closeVars>>

\* a select with a default case: Next returns false when nothing is ready
NextReturnsFalseAtOnce == TRUE

\* whether Next's select can return false: the done case (line 457 / 566) or
\* the receive from the closed channel (lines 459-461 / 568-570)
NextCanReturnFalse == cancelled \/ chClosed

NextFalse ==
    /\ phase = "iter"
    /\ cpc = "next"
    /\ NextCanReturnFalse
    /\ lastNext' = "false"
    /\ cpc' = "idle"
    /\ UNCHANGED <<itrInfo, nextAfterCancel, nextAfterFalse, yielded>>
    /\ UNCHANGED <<storeVars, opVars, listCount, clientVars, itrKind, itrGen, cancelled,
                   itrErr, fetchVars, closeVars>>

\* the context passed to the constructor is cancelled by its owner
CancelParent ==
    /\ phase = "iter"
    /\ ~cancelled
    /\ cancelled' = TRUE
    /\ UNCHANGED <<storeVars, opVars, listCount, clientVars, itrKind, itrGen,
                   itrErr, fetchVars, consVars, closeVars>>

\* lines 436-440 / 545-549: Close copies itr.err, cancels the context and
\* starts waiting for the error group
CloseCall ==
    /\ phase = "iter"
    /\ clpc = "idle"
    /\ closeErr' = itrErr
    /\ cancelled' = TRUE
    /\ clpc' = "waiting"
    /\ closeAt' = fpc
    /\ UNCHANGED closeResult
    /\ UNCHANGED <<storeVars, opVars, listCount, clientVars, itrKind, itrGen,
                   itrErr, fetchVars, consVars>>

\* a Close that drops the error of g.Wait()
CloseErrorIgnoringWait(err, e) == err

\* lines 441-445 / 550-554: the error Close returns, from its local err and the
\* error e of g.Wait()
CloseError(err, e) == IF e # "nil" /\ err = "nil" THEN e ELSE err

\* lines 441-445 / 550-554: g.Wait() returns once fetch has returned
CloseReturn ==
    /\ phase = "iter"
    /\ clpc = "waiting"
    /\ fpc = "done"
    /\ closeResult' = CloseError(closeErr, taskErr)
    /\ clpc' = "returned"
    /\ UNCHANGED <<closeErr, closeAt>>
    /\ UNCHANGED <<storeVars, opVars, listCount, clientVars, itrKind, itrGen, cancelled,
                   itrErr, fetchVars, consVars>>

\* the steps the fetch goroutine takes on its own
FetchTask == FetchStart \/ FetchLoop \/ FetchResponse \/ FetchItem \/ FetchCtxDone

IteratorNext ==
    \/ FetchStart
    \/ FetchLoop
    \/ FetchResponse
    \/ FetchItem
    \/ FetchCtxDone
    \/ HandOff
    \/ NextCall
    \/ NextFalse
    \/ CancelParent
    \/ CloseCall
    \/ CloseReturn

-----------------------------------------------------------------------------
(* ReplicaClient.Init, called concurrently *)

Callers == 1..NumCallers

\* a Lock that does not wait for the mutex
MutexIgnored == TRUE

\* line 75: c.mu.Lock() can return
MutexFree == mu = 0

\* Init returns r; the deferred c.mu.Unlock() (line 76) runs
InitReturn(c, r) ==
    /\ mu' = 0
    /\ initRet' = [initRet EXCEPT ![c] = r]
    /\ ipc' = [ipc EXCEPT ![c] = "idle"]

\* a caller (directly or inside a public operation) calls Init
InitCall(c) ==
    /\ phase = "init"
    /\ ipc[c] = "idle"
    /\ calls[c] < MaxInitCalls
    /\ calls' = [calls EXCEPT ![c] = @ + 1]
    /\ initSawSet' = [initSawSet EXCEPT ![c] = containerURL # 0]
    /\ ipc' = [ipc EXCEPT ![c] = "lock"]
    /\ UNCHANGED <<sasURLOk, containerURL, built, mu, initRet>>
    /\ UNCHANGED <<storeVars, opVars, listCount, itrVars>>

\* line 75: c.mu.Lock()
InitLock(c) ==
    /\ phase = "init"
    /\ ipc[c] = "lock"
    /\ MutexFree
    /\ mu' = c
    /\ ipc' = [ipc EXCEPT ![c] = "check"]
    /\ UNCHANGED <<sasURLOk, containerURL, built, initRet, initSawSet, calls>>
    /\ UNCHANGED <<storeVars, opVars, listCount, itrVars>>

\* lines 78-86: the handle is already there (return nil), or the URL is parsed
InitCheck(c) ==
    /\ phase = "init"
    /\ ipc[c] = "check"
    /\ IF containerURL # 0
       THEN InitReturn(c, "nil")
       ELSE IF sasURLOk
       THEN /\ ipc' = [ipc EXCEPT ![c] = "build"]
            /\ UNCHANGED <<mu, initRet>>
       ELSE InitReturn(c, "errParse")
    /\ UNCHANGED <<sasURLOk, containerURL, built, initSawSet, calls>>
    /\ UNCHANGED <<storeVars, opVars, listCount, itrVars>>

\* lines 89-103: the pipeline and the container URL are built
InitBuild(c) ==
    /\ phase = "init"
    /\ ipc[c] = "build"
    /\ built' = built + 1
    /\ ipc' = [ipc EXCEPT ![c] = "assign"]
    /\ UNCHANGED <<sasURLOk, containerURL, mu, initRet, initSawSet, calls>>
    /\ UNCHANGED <<storeVars, opVars, listCount, itrVars>>

\* lines 104-106: the handle just built is stored, Init returns nil
InitAssign(c) ==
    /\ phase = "init"
    /\ ipc[c] = "assign"
    /\ containerURL' = built
    /\ InitReturn(c, "nil")
    /\ UNCHANGED <<sasURLOk, built, initSawSet, calls>>
    /\ UNCHANGED <<storeVars, opVars, listCount, itrVars>>

InitNext ==
    \E c \in Callers :
        InitCall(c) \/ InitLock(c) \/ InitCheck(c) \/ InitBuild(c) \/ InitAssign(c)

\* an Init that never fails
InitErrorNever == "nil"

\* lines 74-107 run by one caller alone, as the public operations run it when
\* nothing else uses the client: the error Init returns
InitError == IF containerURL # 0 \/ sasURLOk THEN "nil" ELSE "errParse"

\* lines 74-107 run by one caller alone: what Init leaves
InitAlone ==
    /\ IF containerURL = 0 /\ sasURLOk
       THEN /\ built' = built + 1
            /\ containerURL' = built + 1
       ELSE UNCHANGED <<built, containerURL>>
    /\ UNCHANGED <<sasURLOk, mu, ipc, initRet, initSawSet, calls>>

-----------------------------------------------------------------------------
(* The operations on single blobs, and the two that open an iterator *)

\* the key of litestream.SnapshotPath(c.path, generation, index), as the blob
\* it names
SnapshotKey(g, i) == [gen |-> g, kind |-> "snapshots", name |-> FormatSnapshotPath(i)]

HasKey(b, key) == b.gen = key.gen /\ b.kind = key.kind /\ b.name = key.name

\* the container after an upload to key committed sz bytes
PutBlob(s, key, sz) ==
    {b \in s : ~HasKey(b, key)} \cup {Blob(key.gen, key.kind, key.name, sz)}

\* the container after a delete of key
DeleteBlob(s, key) == {b \in s : ~HasKey(b, key)}

Exists(s, key) == \E b \in s : HasKey(b, key)

\* the history of acknowledged writes after a write / a delete of (g, i)
Acked(w, g, i) == {e \in w : ~(e.generation = g /\ e.index = i)}

\* indexes and payload sizes the calls are made with
WriteIndexes == {0, 10}
WriteSizes == {10, 20}

\* litestream.Pos
Pos(g, i, o) == [generation |-> g, index |-> i, offset |-> o]

\* the key of litestream.WALSegmentPath(c.path, pos.Generation, pos.Index,
\* pos.Offset), as the blob it names
WALSegmentKey(pos) ==
    [gen |-> pos.generation, kind |-> "wal",
     name |-> FormatWALSegmentPath(pos.index, pos.offset)]

\* Errors are sequences of strings: the empty sequence is nil, and
\* fmt.Errorf("msg: %w", err) puts msg in front of err.
Nil == <<>>
Wrap(msg, e) == <<msg>> \o e
ErrNotExist == <<"os.ErrNotExist">>

\* How the remote treats a request for one blob: it serves it, it refuses it
\* with a StorageError of some other service code, or the transport fails.  A
\* request that fails leaves the container as it was.
Outcomes == {"served", "StorageError", "errTransport"}

\* the outcomes that are failures
Failures == Outcomes \ {"served"}

\* the error blobURL.Delete / blobURL.Download return for key
BlobResponse(s, key, o) ==
    IF o # "served" THEN <<o>>
    ELSE IF Exists(s, key) THEN Nil
    ELSE <<"BlobNotFound">>

\* a test that takes every StorageError for "not found"
IsNotExistsAnyStorageError(e) == e \in {<<"BlobNotFound">>, <<"StorageError">>}

\* lines 583-590: a StorageError whose service code is BlobNotFound
isNotExists(e) == e = <<"BlobNotFound">>

\* a delete that takes "not found" for a failure
DeleteErrorNotFoundFails(e, msg) == IF e # Nil THEN Wrap(msg, e) ELSE Nil

\* a reader that hands on "not found" like any other error of the remote
ReaderErrorUntranslated(e) ==
    IF e # Nil THEN Wrap("cannot start new reader", e) ELSE Nil

\* lines 265-269 / 356-360: what a delete makes of the remote's error
DeleteError(e, msg) ==
    IF isNotExists(e) THEN Nil
    ELSE IF e # Nil THEN Wrap(msg, e)
    ELSE Nil

\* lines 239-243 / 329-333: what a reader makes of the remote's error
ReaderError(e) ==
    IF isNotExists(e) THEN ErrNotExist
    ELSE IF e # Nil THEN Wrap("cannot start new reader", e)
    ELSE Nil

\* the record of a call: the operation, its positions, the error it returned,
\* the number of requests it sent to the remote, the names it returned, and
\* (resp) what the remote answered its requests for single blobs, in order
Call(op, args, e, n, out) ==
    [op |-> op, args |-> args, err |-> e, sent |-> n, out |-> out, resp |-> <<>>]
NoCall == Call("none", <<>>, Nil, 0, <<>>)

\* the operation counters a call has not touched, and touched once for one kind
NoCounts == [PUT |-> 0, GET |-> 0, DELETE |-> 0]
Counted(kind) == [NoCounts EXCEPT ![kind] = Inc(@)]

\* the answer of the remote as a word: "nil", "BlobNotFound", ...
Answer(e) == IF e = Nil THEN "nil" ELSE e[1]
Answered(c, answers) == [c EXCEPT !.resp = answers]

\* the error an operation returns before it sends anything: Init's error
\* (returned as it is), or the wrapped error of the path function
Preamble(g, msg) ==
    IF InitError # "nil" THEN <<InitError>>
    ELSE IF ~PathOk(g) THEN Wrap(msg, <<"errPath">>)
    ELSE Nil

\* lines 191-224: WriteSnapshot(ctx, generation, index, rd) with a payload of
\* sz bytes; the upload succeeds or fails
WriteSnapshot(g, i, sz) ==
    /\ phase = "ops"
    /\ InitAlone
    /\ \E pre \in {Preamble(g, "cannot determine snapshot path")} :
        IF pre = Nil
        THEN \E uploaded \in BOOLEAN :
              IF uploaded
              THEN /\ store' = PutBlob(store, SnapshotKey(g, i), sz)
                   /\ written' = Acked(written, g, i) \cup {SnapshotInfo(g, i, sz)}
                   /\ ret' = Call("WriteSnapshot", <<Pos(g, i, 0)>>, Nil, 1, <<>>)
                   /\ counted' = Counted("PUT")
              ELSE /\ UNCHANGED <<store, written>>
                   /\ ret' = Call("WriteSnapshot", <<Pos(g, i, 0)>>,
                                  <<"errTransport">>, 1, <<>>)
                   /\ counted' = NoCounts
        ELSE /\ UNCHANGED <<store, written>>
             /\ ret' = Call("WriteSnapshot", <<Pos(g, i, 0)>>, pre, 0, <<>>)
             /\ counted' = NoCounts
    /\ UNCHANGED <<phase, listCount, itrVars, listBase, delVars>>

\* lines 227-249: SnapshotReader(ctx, generation, index)
SnapshotReader(g, i) ==
    /\ phase = "ops"
    /\ InitAlone
    /\ \E pre \in {Preamble(g, "cannot determine snapshot path")} :
        IF pre = Nil
        THEN \E o \in Outcomes :
              \E e \in {BlobResponse(store, SnapshotKey(g, i), o)} :
                /\ ret' = Answered(Call("SnapshotReader", <<Pos(g, i, 0)>>,
                                        ReaderError(e), 1, <<>>), <<Answer(e)>>)
                /\ counted' = IF e = Nil THEN Counted("GET") ELSE NoCounts
        ELSE /\ ret' = Call("SnapshotReader", <<Pos(g, i, 0)>>, pre, 0, <<>>)
             /\ counted' = NoCounts
    /\ UNCHANGED <<storeVars, listCount, itrVars, listBase, delVars>>

\* lines 252-271: DeleteSnapshot(ctx, generation, index)
DeleteSnapshot(g, i) ==
    /\ phase = "ops"
    /\ InitAlone
    /\ \E pre \in {Preamble(g, "cannot determine snapshot path")} :
        IF pre = Nil
        THEN \E o \in Outcomes :
              \E e \in {BlobResponse(store, SnapshotKey(g, i), o)} :
                /\ IF e = Nil
                   THEN /\ store' = DeleteBlob(store, SnapshotKey(g, i))
                        /\ written' = Acked(written, g, i)
                   ELSE UNCHANGED <<store, written>>
                /\ ret' = Answered(Call("DeleteSnapshot", <<Pos(g, i, 0)>>,
                                        DeleteError(e, "cannot delete snapshot"),
                                        1, <<>>), <<Answer(e)>>)
                /\ counted' = Counted("DELETE")
        ELSE /\ UNCHANGED <<store, written>>
             /\ ret' = Call("DeleteSnapshot", <<Pos(g, i, 0)>>, pre, 0, <<>>)
             /\ counted' = NoCounts
    /\ UNCHANGED <<phase, listCount, itrVars, listBase, delVars>>

\* lines 183-188: Snapshots(ctx, generation) returns a new iterator, or Init's
\* error
Snapshots(g) ==
    /\ phase = "ops"
    /\ InitAlone
    /\ IF InitError = "nil"
       THEN /\ phase' = "iter"
            /\ NewIterator("snapshots", g)
            /\ ret' = Call("Snapshots", <<Pos(g, 0, 0)>>, Nil, 0, <<>>)
       ELSE /\ UNCHANGED <<phase, itrVars>>
            /\ ret' = Call("Snapshots", <<Pos(g, 0, 0)>>, <<InitError>>, 0, <<>>)
    /\ listBase' = listCount
    /\ counted' = NoCounts
    /\ UNCHANGED <<store, written, listCount, delVars>>

\* lines 274-279: WALSegments(ctx, generation)
WALSegments(g) ==
    /\ phase = "ops"
    /\ InitAlone
    /\ IF InitError = "nil"
       THEN /\ phase' = "iter"
            /\ NewIterator("wal", g)
            /\ ret' = Call("WALSegments", <<Pos(g, 0, 0)>>, Nil, 0, <<>>)
       ELSE /\ UNCHANGED <<phase, itrVars>>
            /\ ret' = Call("WALSegments", <<Pos(g, 0, 0)>>, <<InitError>>, 0, <<>>)
    /\ listBase' = listCount
    /\ counted' = NoCounts
    /\ UNCHANGED <<store, written, listCount, delVars>>

\* sizes of the payloads WAL segments are written with
WALSizes == {30}

\* lines 282-313: WriteWALSegment(ctx, pos, rd) with a payload of sz bytes
WriteWALSegment(pos, sz) ==
    /\ phase = "ops"
    /\ InitAlone
    /\ \E pre \in {Preamble(pos.generation, "cannot determine wal segment path")} :
        IF pre = Nil
        THEN \E uploaded \in BOOLEAN :
              /\ store' = IF uploaded THEN PutBlob(store, WALSegmentKey(pos), sz)
                          ELSE store
              /\ ret' = Call("WriteWALSegment", <<pos>>,
                             IF uploaded THEN Nil ELSE <<"errTransport">>, 1, <<>>)
              /\ counted' = IF uploaded THEN Counted("PUT") ELSE NoCounts
        ELSE /\ UNCHANGED store
             /\ ret' = Call("WriteWALSegment", <<pos>>, pre, 0, <<>>)
             /\ counted' = NoCounts
    /\ UNCHANGED <<written, phase, listCount, itrVars, listBase, delVars>>

\* lines 317-339: WALSegmentReader(ctx, pos)
WALSegmentReader(pos) ==
    /\ phase = "ops"
    /\ InitAlone
    /\ \E pre \in {Preamble(pos.generation, "cannot determine wal segment path")} :
        IF pre = Nil
        THEN \E o \in Outcomes :
              \E e \in {BlobResponse(store, WALSegmentKey(pos), o)} :
                /\ ret' = Answered(Call("WALSegmentReader", <<pos>>,
                                        ReaderError(e), 1, <<>>), <<Answer(e)>>)
                /\ counted' = IF e = Nil THEN Counted("GET") ELSE NoCounts
        ELSE /\ ret' = Call("WALSegmentReader", <<pos>>, pre, 0, <<>>)
             /\ counted' = NoCounts
    /\ UNCHANGED <<storeVars, listCount, itrVars, listBase, delVars>>

\* a loop that goes on to the next position after an error
DeleteWALSegmentsNoAbort(s, a, i, os, answers) ==
    [store |-> {b \in s : \A j \in 1..Len(a) :
                    ~(HasKey(b, WALSegmentKey(a[j])) /\ os[j] = "served")},
     err |-> Nil,
     answers |-> [j \in 1..Len(a) |-> Answer(BlobResponse(s, WALSegmentKey(a[j]), os[j]))]]

\* how the remote treats the Deletes of a call: it serves them, but for the
\* one at position failAt, where o happens (no such position when failAt = 0)
FailingAt(n, failAt, o) == [j \in 1..n |-> IF j = failAt THEN o ELSE "served"]

\* lines 347-363: the range of DeleteWALSegments from position i of a on; os[j]
\* is how the remote treats the Delete of a[j]
RECURSIVE DeleteWALSegmentsLoop(_, _, _, _, _)
DeleteWALSegmentsLoop(s, a, i, os, answers) ==
    IF i > Len(a) THEN [store |-> s, err |-> Nil, answers |-> answers]
    ELSE IF ~PathOk(a[i].generation)
    THEN [store |-> s,
          err |-> Wrap("cannot determine wal segment path", <<"errPath">>),
          answers |-> answers]
    ELSE LET e == BlobResponse(s, WALSegmentKey(a[i]), os[i])
         IN IF isNotExists(e)
            THEN DeleteWALSegmentsLoop(s, a, i + 1, os, Append(answers, Answer(e)))
            ELSE IF e # Nil
            THEN [store |-> s,
                  err |-> Wrap("cannot delete wal segment", e),
                  answers |-> Append(answers, Answer(e))]
            ELSE DeleteWALSegmentsLoop(DeleteBlob(s, WALSegmentKey(a[i])), a, i + 1, os,
                                       Append(answers, Answer(e)))

\* lines 342-364: DeleteWALSegments(ctx, a); the model follows the client up
\* to the return of one such call
DeleteWALSegments(a) ==
    /\ phase = "ops"
    /\ InitAlone
    /\ IF InitError = "nil"
       THEN \E failAt \in 0..Len(a), o \in Failures :
              \E r \in {DeleteWALSegmentsLoop(store, a, 1,
                                              FailingAt(Len(a), failAt, o), <<>>)} :
                /\ store' = r.store
                /\ ret' = Answered(Call("DeleteWALSegments", a, r.err,
                                        Len(r.answers), <<>>), r.answers)
                /\ counted' = [NoCounts EXCEPT !.DELETE = Len(r.answers)]
       ELSE /\ UNCHANGED store
            /\ ret' = Call("DeleteWALSegments", a, <<InitError>>, 0, <<>>)
            /\ counted' = NoCounts
    /\ phase' = "end"
    /\ UNCHANGED <<written, listCount, itrVars, listBase, delVars>>

\* the positions the WAL operations are called with
WALArgs == {Pos("g1", 0, 0), Pos("g1", 0, 4096), Pos("g1", 1, 0), Pos(BadGeneration, 0, 0)}

\* the lists a DeleteWALSegments call is given: different positions, one of a
\* malformed generation only at the end (the range never gets past it)
PositionLists ==
    {a \in UNION {[1..n -> WALArgs] : n \in 0..MaxPositions} :
        /\ \A i, j \in 1..Len(a) : i # j => a[i] # a[j]
        /\ \A i \in 1..Len(a) : i < Len(a) => PathOk(a[i].generation)}

\* the index the snapshot operations are called with
OpsIndexes == {0}

\* the blobs the operations are called for, any of which the container can
\* hold when they begin
OpsPool ==
    {Blob("g1", "snapshots", FormatSnapshotPath(0), 10),
     Blob("g1", "wal", FormatWALSegmentPath(0, 0), 30),
     Blob("g1", "wal", FormatWALSegmentPath(0, 4096), 30),
     Blob("g1", "wal", FormatWALSegmentPath(1, 0), 30)}

\* blobs no operation is called for: another index, another generation
OpsOthers ==
    {Blob("g1", "snapshots", FormatSnapshotPath(10), 20),
     Blob("g2", "snapshots", FormatSnapshotPath(0), 10),
     Blob("g2", "wal", FormatWALSegmentPath(0, 0), 30),
     Blob("g1", "wal", FormatWALSegmentPath(1, 4096), 30)}

OpsNext ==
    \/ \E g \in {"g1", BadGeneration}, i \in OpsIndexes :
         \/ \E sz \in WriteSizes : WriteSnapshot(g, i, sz)
         \/ SnapshotReader(g, i)
         \/ DeleteSnapshot(g, i)
    \/ \E pos \in WALArgs :
         \/ \E sz \in WALSizes : WriteWALSegment(pos, sz)
         \/ WALSegmentReader(pos)

WALNext ==
    \/ \E pos \in WALArgs, sz \in WALSizes : WriteWALSegment(pos, sz)
    \/ \E a \in PositionLists : DeleteWALSegments(a)

-----------------------------------------------------------------------------
(* Listings of a generation and of the generations *)

\* "snapshots", "wal" and "/"
SnapshotsDir == <<115, 110, 97, 112, 115, 104, 111, 116, 115>>
WALDir == <<119, 97, 108>>
Slash == 47

\* the name of a blob below the directory of its generation
RelKey(b) == (IF b.kind = "snapshots" THEN SnapshotsDir ELSE WALDir) \o <<Slash>> \o b.name

KeyOf(b) == [gen |-> b.gen, kind |-> b.kind, name |-> b.name]

\* the blobs whose name starts with litestream.GenerationPath(c.path, g) + "/"
UnderGeneration(s, g) == {b \in s : b.gen = g}

\* the blobs of bs in lexicographic order of their names below the generation
SortByKey(bs) ==
    [i \in 1..Cardinality(bs) |->
        CHOOSE b \in bs :
            Cardinality({c \in bs : LexLess(RelKey(c), RelKey(b))}) = i - 1]

\* the page at the head of a sorted listing of a generation, and the marker of
\* the next page
PageOfKeys(sorted) ==
    [items |-> Take(sorted, PageSize),
     next |-> IF Len(sorted) > PageSize
              THEN ContinueMarker(RelKey(sorted[PageSize]))
              ELSE DoneMarker]

\* a listing that never has a second page
ListBlobsFlatSegmentDirOnePage(s, g, m) ==
    [items |-> Take(SortByKey(UnderGeneration(s, g)), PageSize), next |-> DoneMarker]

\* containerURL.ListBlobsFlatSegment(ctx, marker, {Prefix: dir + "/"}) with
\* the directory of generation g: one page of all its blobs
ListBlobsFlatSegmentDir(s, g, m) ==
    PageOfKeys(SortByKey({b \in UnderGeneration(s, g) : LexLess(m.after, RelKey(b))}))

\* the number of pages a listing of n entries is delivered in
Pages(n) == IF n = 0 THEN 1 ELSE (n + PageSize - 1) \div PageSize

\* the directory names the model uses, in lexicographic order
DirOrder == <<BadGeneration, "g1", "g2">>
DirRank(d) == CHOOSE i \in 1..Len(DirOrder) : DirOrder[i] = d

\* the directories below litestream.GenerationsPath(c.path) that hold a blob
Dirs(s) == {b.gen : b \in s}

SortDirs(ds) ==
    [i \in 1..Cardinality(ds) |->
        CHOOSE d \in ds : Cardinality({c \in ds : DirRank(c) < DirRank(d)}) = i - 1]

\* containerURL.ListBlobsHierarchySegment(ctx, marker, "/", {Prefix}): one page
\* of the BlobPrefixes below the generations directory
ListBlobsHierarchySegment(s, m) ==
    LET rest == SortDirs({d \in Dirs(s) : LexLess(m.after, <<DirRank(d)>>)})
    IN [prefixes |-> Take(rest, PageSize),
        next |-> IF Len(rest) > PageSize
                 THEN ContinueMarker(<<DirRank(rest[PageSize])>>)
                 ELSE DoneMarker]

\* a loop that appends every directory name
KeepAll(d) == TRUE

\* lines 131-133: the names Generations keeps
KeepName(d) == IsGenerationName(d)

\* lines 116-139: the loop of Generations from marker m on, with the names
\* collected so far and the LIST counter grown by n; request number failAt fails
RECURSIVE GenerationsLoop(_, _, _, _, _)
GenerationsLoop(s, m, names, n, failAt) ==
    IF ~NotDone(m) THEN Call("Generations", <<>>, Nil, n, names)
    ELSE IF Inc(n) = failAt THEN Call("Generations", <<>>, <<"errList">>, Inc(n), <<>>)
    ELSE LET resp == ListBlobsHierarchySegment(s, m)
         IN GenerationsLoop(s, resp.next, names \o SelectSeq(resp.prefixes, KeepName),
                            Inc(n), failAt)

\* lines 110-140: Generations(ctx); every page request is counted as LIST
GenerationsCall ==
    /\ phase = "del"
    /\ dpc \in {"idle", "done"}
    /\ InitAlone
    /\ IF InitError = "nil"
       THEN \E failAt \in 0..Cardinality(Dirs(store)) :
              \E r \in {GenerationsLoop(store, StartMarker, <<>>, 0, failAt)} :
                /\ ret' = r
                /\ listCount' = listCount + r.sent
       ELSE /\ ret' = Call("Generations", <<>>, <<InitError>>, 0, <<>>)
            /\ UNCHANGED listCount
    /\ listBase' = listCount
    /\ counted' = NoCounts
    /\ phase' = "end"
    /\ UNCHANGED <<store, written, itrVars, delVars>>

-----------------------------------------------------------------------------
(* DeleteGeneration, with other clients of the container at work *)

\* lines 143-152: DeleteGeneration(ctx, generation) up to its loop
DeleteGeneration(g) ==
    /\ phase = "del"
    /\ dpc = "idle"
    /\ InitAlone
    /\ dGen' = g
    /\ listBase' = listCount
    /\ counted' = NoCounts
    /\ \E pre \in {Preamble(g, "cannot determine generation path")} :
        /\ dRet' = pre
        /\ dpc' = IF pre = Nil THEN "loop" ELSE "done"
    /\ UNCHANGED <<dMarker, dPage, dDone, dWrote, dLost>>
    /\ UNCHANGED <<storeVars, listCount, itrVars, ret>>

\* lines 154-163 and 179: the loop condition, the LIST counter and the page
\* request, which succeeds or fails
DeleteGenerationList ==
    /\ phase = "del"
    /\ dpc = "loop"
    /\ IF NotDone(dMarker)
       THEN /\ listCount' = Inc(listCount)
            /\ \E o \in {"served", "errList"} :
                IF o = "served"
                THEN \E resp \in {ListBlobsFlatSegmentDir(store, dGen, dMarker)} :
                        /\ dMarker' = resp.next
                        /\ dPage' = resp.items
                        /\ dpc' = "items"
                        /\ UNCHANGED dRet
                ELSE /\ dpc' = "done"
                     /\ dRet' = <<o>>
                     /\ UNCHANGED <<dMarker, dPage>>
       ELSE /\ dpc' = "done"
            /\ dRet' = Nil
            /\ UNCHANGED <<listCount, dMarker, dPage>>
    /\ UNCHANGED <<dGen, dDone, dWrote, dLost>>
    /\ UNCHANGED <<storeVars, clientVars, itrVars, ret, listBase, counted>>

\* lines 165-174: the range over the page's items; a Delete that reports
\* "not found" or succeeds goes on to the next item, another error is returned
DeleteGenerationItem ==
    /\ phase = "del"
    /\ dpc = "items"
    /\ IF dPage = <<>>
       THEN /\ dpc' = "loop"
            /\ UNCHANGED <<store, dPage, dRet, dDone, counted>>
       ELSE \E o \in Outcomes :
              \E e \in {BlobResponse(store, KeyOf(Head(dPage)), o)} :
                /\ counted' = [counted EXCEPT !.DELETE = Inc(@)]
                /\ store' = IF e = Nil THEN DeleteBlob(store, KeyOf(Head(dPage)))
                            ELSE store
                /\ IF isNotExists(e) \/ e = Nil
                   THEN /\ dPage' = Tail(dPage)
                        /\ dDone' = Append(dDone, [blob |-> Head(dPage),
                                                    notFound |-> isNotExists(e)])
                        /\ UNCHANGED <<dpc, dRet>>
                   ELSE /\ dpc' = "done"
                        /\ dRet' = e
                        /\ UNCHANGED <<dPage, dDone>>
    /\ UNCHANGED <<dGen, dMarker, dWrote, dLost>>
    /\ UNCHANGED <<written, phase, listCount, clientVars, itrVars, ret, listBase>>

\* the blobs the container can hold
SharedPool ==
    {Blob("g1", "snapshots", FormatSnapshotPath(0), 10),
     Blob("g1", "snapshots", FormatSnapshotPath(10), 20),
     Blob("g1", "snapshots", JunkName, 3),
     Blob("g1", "wal", FormatWALSegmentPath(0, 0), 11),
     Blob("g1", "wal", FormatWALSegmentPath(1, 0), 12),
     Blob("g2", "snapshots", FormatSnapshotPath(1), 7),
     Blob("g2", "wal", FormatWALSegmentPath(1, 1), 8),
     Blob(BadGeneration, "snapshots", FormatSnapshotPath(2), 5)}

\* the blobs other clients of the container write and delete
Contended ==
    {Blob("g1", "snapshots", FormatSnapshotPath(10), 20),
     Blob("g1", "wal", FormatWALSegmentPath(1, 0), 12),
     Blob("g2", "snapshots", FormatSnapshotPath(1), 7)}

\* while DeleteGeneration runs, another client uploads blob b
OtherWrite(b) ==
    /\ phase = "del"
    /\ dpc \in {"loop", "items"}
    /\ b \notin store
    /\ store' = PutBlob(store, KeyOf(b), b.size)
    /\ dWrote' = (dWrote \/ b.gen = dGen)
    /\ UNCHANGED <<dpc, dGen, dMarker, dPage, dRet, dDone, dLost>>
    /\ UNCHANGED <<written, phase, listCount, clientVars, itrVars, ret, listBase, counted>>

\* while DeleteGeneration runs, another client deletes blob b
OtherDelete(b) ==
    /\ phase = "del"
    /\ dpc \in {"loop", "items"}
    /\ b \in store
    /\ store' = DeleteBlob(store, KeyOf(b))
    /\ dLost' = (dLost \/ b.gen = dGen)
    /\ UNCHANGED <<dpc, dGen, dMarker, dPage, dRet, dDone, dWrote>>
    /\ UNCHANGED <<written, phase, listCount, clientVars, itrVars, ret, listBase, counted>>

DeleteNext ==
    \/ \E g \in Generations \cup {BadGeneration} : DeleteGeneration(g)
    \/ DeleteGenerationList
    \/ DeleteGenerationItem
    \/ \E b \in Contended : OtherWrite(b) \/ OtherDelete(b)
    \/ GenerationsCall
    \/ \E g \in Generations \cup {BadGeneration} : Snapshots(g) \/ WALSegments(g)

StoreNext ==
    \/ \E g \in Generations \cup {BadGeneration}, i \in WriteIndexes :
         \/ \E sz \in WriteSizes : WriteSnapshot(g, i, sz)
         \/ DeleteSnapshot(g, i)
    \/ \E g \in Generations \cup {BadGeneration} : Snapshots(g)

-----------------------------------------------------------------------------
(* NewReplicaClient *)

\* strings.TrimPrefix(s, "/")
TrimPrefix(s) == IF s # <<>> /\ s[1] = Slash THEN Tail(s) ELSE s

\* the positions of "/" in s
SlashesIn(s) == {i \in 1..Len(s) : s[i] = Slash}

\* strings.Split(s, "/"): the parts of s between its slashes, one more than
\* it has slashes; one empty part for the empty string
RECURSIVE Split(_)
Split(s) ==
    IF SlashesIn(s) = {} THEN <<s>>
    ELSE LET first == CHOOSE i \in SlashesIn(s) : \A j \in SlashesIn(s) : i <= j
         IN <<SubSeq(s, 1, first - 1)>> \o Split(SubSeq(s, first + 1, Len(s)))

\* strings.Join(parts, "/")
RECURSIVE Join(_)
Join(parts) ==
    IF parts = <<>> THEN <<>>
    ELSE IF Len(parts) = 1 THEN parts[1]
    ELSE parts[1] \o <<Slash>> \o Join(Tail(parts))

MissingContainer == <<"invalid SAS URL format: missing container name">>

\* lines 36-66: NewReplicaClient given a string that parses or not, with the
\* URL path p when it does: the error, and the container and path of the client
NewReplicaClient(parses, p) ==
    IF ~parses THEN [err |-> <<"errParse">>, container |-> <<>>, path |-> <<>>]
    ELSE LET pathParts == Split(TrimPrefix(p))
         IN IF Len(pathParts) < 1
            THEN [err |-> MissingContainer, container |-> <<>>, path |-> <<>>]
            ELSE [err |-> Nil,
                  container |-> pathParts[1],
                  path |-> IF Len(pathParts) > 1 THEN Join(Tail(pathParts)) ELSE <<>>]

\* the characters URL paths are made of: "/", "a", "b"
PathChars == {Slash, 97, 98}

\* the URL paths NewReplicaClient is called with
URLPaths == UNION {[1..n -> PathChars] : n \in 0..MaxPathLen}

\* a call of NewReplicaClient
NewReplicaClientCall(p) ==
    /\ phase = "new"
    /\ \E r \in {NewReplicaClient(sasURLOk, p)} :
          /\ ret' = Call("NewReplicaClient", <<p>>, r.err, 0, <<r.container, r.path>>)
          /\ phase' = IF r.err = Nil THEN "init" ELSE "end"
    /\ counted' = NoCounts
    /\ UNCHANGED <<store, written, listBase, delVars>>
    /\ UNCHANGED <<listCount, clientVars, itrVars>>

-----------------------------------------------------------------------------
(* The iterator specification: one iterator, open on a container that holds
   any subset of a pool of blobs, with its consumer, its closer and the owner
   of the parent context running concurrently. *)

\* indexes and WAL positions of the pool: they differ in their number of
\* hexadecimal digits and in digits below and above 9
PoolIndexes == {0, 9, 10, 4096}
PoolPositions == {<<0, 0>>, <<0, 4096>>, <<1, 0>>, <<10, 255>>}

\* the size of the payload of a pool blob
PoolSize(i, o) == 10 + (i % 7) + (o % 5)

\* a name that does not parse and sorts among those that do: "00000005.tmp"
TmpName == FormatHex(5) \o TmpExt

SnapshotPool(g) ==
    {Blob(g, "snapshots", FormatSnapshotPath(i), PoolSize(i, 0)) : i \in PoolIndexes}
        \cup {Blob(g, "snapshots", JunkName, 3), Blob(g, "snapshots", TmpName, 4)}
WALPool(g) ==
    {Blob(g, "wal", FormatWALSegmentPath(p[1], p[2]), PoolSize(p[1], p[2])) :
        p \in PoolPositions}
        \cup {Blob(g, "wal", JunkName, 3), Blob(g, "wal", TmpName, 4)}
Pool(k, g) == IF k = "snapshots" THEN SnapshotPool(g) ELSE WALPool(g)

\* blobs outside the listed prefix: the other generation, the other kind
Others(k, g) ==
    LET other == IF k = "snapshots" THEN "wal" ELSE "snapshots"
    IN {Blob("g2", k, FormatSnapshotPath(1), 7),
        Blob("g2", k, FormatWALSegmentPath(1, 1), 7),
        Blob(g, other, FormatSnapshotPath(2), 7),
        Blob(g, other, FormatWALSegmentPath(2, 2), 7)}

\* the client after a successful Init, no Init call in progress
ClientReady ==
    /\ sasURLOk = TRUE
    /\ containerURL = 1
    /\ built = 1
    /\ mu = 0
    /\ ipc = [c \in Callers |-> "idle"]
    /\ initRet = [c \in Callers |-> "none"]
    /\ initSawSet = [c \in Callers |-> FALSE]
    /\ calls = [c \in Callers |-> 0]

\* no DeleteGeneration call has been made
DeleteIdle ==
    /\ dpc = "idle"
    /\ dGen = ""
    /\ dMarker = StartMarker
    /\ dPage = <<>>
    /\ dRet = Nil
    /\ dDone = <<>>
    /\ dWrote = FALSE
    /\ dLost = FALSE

\* no operation has been called
NoCalls ==
    /\ ret = NoCall
    /\ listBase = 0
    /\ counted = NoCounts
    /\ DeleteIdle

\* the iterator as newSnapshotIterator / newWALSegmentIterator returns it
IteratorFresh(k, g) ==
    /\ itrKind = k
    /\ itrGen = g
    /\ cancelled = FALSE
    /\ itrErr = "nil"
    /\ fpc = "start"
    /\ marker = StartMarker
    /\ reqStale = FALSE
    /\ page = <<>>
    /\ offer = ZeroInfo(k)
    /\ chClosed = FALSE
    /\ taskErr = "nil"
    /\ offered = 0
    /\ dropped = 0
    /\ itrInfo = ZeroInfo(k)
    /\ cpc = "idle"
    /\ nextAfterCancel = FALSE
    /\ nextAfterFalse = FALSE
    /\ lastNext = "none"
    /\ yielded = <<>>
    /\ clpc = "idle"
    /\ closeErr = "nil"
    /\ closeResult = "nil"
    /\ closeAt = "none"

Init ==
    /\ \E k \in {"snapshots", "wal"}, g \in {"g1", BadGeneration} :
        /\ IteratorFresh(k, g)
        /\ \E bs \in SUBSET Pool(k, "g1") : store = bs \cup Others(k, "g1")
    /\ written = {}
    /\ phase = "iter"
    /\ listCount = 0
    /\ NoCalls
    /\ ClientReady

Next == IteratorNext

Spec == Init /\ [][Next]_vars

\* The iterator on an empty and on a full container, with the scheduling the
\* runtime gives: a goroutine that can take a step takes it, a page request
\* comes back, and g.Wait() returns once fetch has returned.  Nothing obliges
\* the consumer to call Next or Close, or the owner to cancel.
LiveInit ==
    /\ \E k \in {"snapshots", "wal"}, g \in {"g1", BadGeneration} :
        /\ IteratorFresh(k, g)
        /\ \E bs \in {{}, Pool(k, "g1")} : store = bs \cup Others(k, "g1")
    /\ written = {}
    /\ phase = "iter"
    /\ listCount = 0
    /\ NoCalls
    /\ ClientReady

LiveSpec == LiveInit /\ [][Next]_vars /\ WF_vars(FetchTask) /\ WF_vars(CloseReturn)

\* an iterator that is not open
IteratorIdle == IteratorFresh("snapshots", "g1")

\* Concurrent first use: a client as NewReplicaClient returns it (no handle
\* yet; its sasURL has been parsed once already, line 39, so it parses), and
\* NumCallers goroutines that each call Init up to MaxInitCalls times.
InitInit ==
    /\ sasURLOk = TRUE
    /\ containerURL = 0
    /\ built = 0
    /\ mu = 0
    /\ ipc = [c \in Callers |-> "idle"]
    /\ initRet = [c \in Callers |-> "none"]
    /\ initSawSet = [c \in Callers |-> FALSE]
    /\ calls = [c \in Callers |-> 0]
    /\ store = {}
    /\ written = {}
    /\ phase = "init"
    /\ listCount = 0
    /\ NoCalls
    /\ IteratorIdle

SpecInit == InitInit /\ [][InitNext]_vars

\* One caller at a time: snapshots are written to and deleted from an empty
\* container through a client as NewReplicaClient returns it, then an iterator
\* is opened and used.
StoreInit ==
    /\ sasURLOk = TRUE
    /\ containerURL = 0
    /\ built = 0
    /\ mu = 0
    /\ ipc = [c \in Callers |-> "idle"]
    /\ initRet = [c \in Callers |-> "none"]
    /\ initSawSet = [c \in Callers |-> FALSE]
    /\ calls = [c \in Callers |-> 0]
    /\ store = {}
    /\ written = {}
    /\ phase = "ops"
    /\ listCount = 0
    /\ NoCalls
    /\ IteratorIdle

SpecStore == StoreInit /\ [][StoreNext \/ IteratorNext]_vars

\* One caller at a time: snapshots and WAL segments are written, read and
\* deleted through a client as NewReplicaClient returns it, on a container that
\* holds any part of a pool of blobs, and other blobs.
OpsInit ==
    /\ sasURLOk = TRUE
    /\ containerURL = 0
    /\ built = 0
    /\ mu = 0
    /\ ipc = [c \in Callers |-> "idle"]
    /\ initRet = [c \in Callers |-> "none"]
    /\ initSawSet = [c \in Callers |-> FALSE]
    /\ calls = [c \in Callers |-> 0]
    /\ \E bs \in SUBSET OpsPool : store = bs \cup OpsOthers
    /\ written = {}
    /\ phase = "ops"
    /\ listCount = 0
    /\ NoCalls
    /\ IteratorIdle

SpecOps == OpsInit /\ [][OpsNext]_vars

\* The same client and container: WAL segments are written, then a batch of
\* them is deleted.
SpecWAL == OpsInit /\ [][WALNext]_vars

\* A client as NewReplicaClient returns it either makes one DeleteGeneration
\* call on a container that holds any part of the shared pool (other clients
\* writing and deleting while it runs) and then lists the generations, or
\* opens an iterator on a container that holds the pool but for some of the
\* contended blobs, and uses it.
DeleteInit ==
    /\ sasURLOk = TRUE
    /\ containerURL = 0
    /\ built = 0
    /\ mu = 0
    /\ ipc = [c \in Callers |-> "idle"]
    /\ initRet = [c \in Callers |-> "none"]
    /\ initSawSet = [c \in Callers |-> FALSE]
    /\ calls = [c \in Callers |-> 0]
    /\ \/ phase = "del" /\ store \in SUBSET SharedPool
       \/ phase = "ops" /\ store \in {SharedPool \ bs : bs \in SUBSET Contended}
    /\ written = {}
    /\ listCount = 0
    /\ NoCalls
    /\ IteratorIdle

SpecDelete == DeleteInit /\ [][DeleteNext \/ IteratorNext]_vars

\* A client whose sasURL parses or does not (one built inside the package:
\* NewReplicaClient returns none that does not, line 39 parses the same
\* string), on a container that holds the shared pool: either NumCallers
\* goroutines call Init, or one caller uses the public operations, or it
\* deletes a generation and lists the generations.
URLInit ==
    /\ sasURLOk \in BOOLEAN
    /\ containerURL = 0
    /\ built = 0
    /\ mu = 0
    /\ ipc = [c \in Callers |-> "idle"]
    /\ initRet = [c \in Callers |-> "none"]
    /\ initSawSet = [c \in Callers |-> FALSE]
    /\ calls = [c \in Callers |-> 0]
    /\ store = SharedPool
    /\ written = {}
    /\ phase \in {"init", "ops", "del"}
    /\ listCount = 0
    /\ NoCalls
    /\ IteratorIdle

URLNext == InitNext \/ OpsNext \/ WALNext \/ DeleteNext \/ IteratorNext

SpecURL == URLInit /\ [][URLNext]_vars

\* A URL string that parses or not, before NewReplicaClient is called with it.
NewInit ==
    /\ sasURLOk \in BOOLEAN
    /\ containerURL = 0
    /\ built = 0
    /\ mu = 0
    /\ ipc = [c \in Callers |-> "idle"]
    /\ initRet = [c \in Callers |-> "none"]
    /\ initSawSet = [c \in Callers |-> FALSE]
    /\ calls = [c \in Callers |-> 0]
    /\ store = {}
    /\ written = {}
    /\ phase = "new"
    /\ listCount = 0
    /\ NoCalls
    /\ IteratorIdle

SpecNew == NewInit /\ [][\E p \in URLPaths : NewReplicaClientCall(p)]_vars

-----------------------------------------------------------------------------
(* Properties of the iterators *)

RECURSIVE SelectInfos(_, _, _)
SelectInfos(items, k, g) ==
    IF items = <<>> THEN <<>>
    ELSE LET r == ItemInfo(k, g, Head(items))
         IN (IF r.ok THEN <<r.info>> ELSE <<>>) \o SelectInfos(Tail(items), k, g)

\* the parseable entries of the listing the iterator is open on, in listing order
ParseableEntries == SelectInfos(Listing(store, itrGen, itrKind), itrKind, itrGen)

\* Next has returned false and no other Next call is in progress
NextReturnedFalse == cpc = "idle" /\ lastNext = "false"

\* no page request has failed and the context is not done
Undisturbed == ~cancelled /\ taskErr \notin {"errList", "errCanceled"}

\* C1: with the context never cancelled and every page request succeeding,
\* when Next returns false the true-returning Next calls have captured exactly
\* the parseable entries of the listing, once each and in listing order, and
\* Err() is nil; for an empty listing that is no entry at all.
C1_ExhaustionYieldsListing ==
    (NextReturnedFalse /\ Undisturbed) =>
        (yielded = ParseableEntries /\ itrErr = "nil" /\ fpc = "done")

\* a listing of three pages with an unparseable name in it, consumed whole
C1_Witness ==
    /\ NextReturnedFalse /\ Undisturbed
    /\ Len(yielded) = 4
    /\ listCount = 3
    /\ Cardinality(Under(store, itrGen, itrKind)) = 5

\* an empty generation: the first Next returned false
C1_WitnessEmpty ==
    /\ NextReturnedFalse /\ Undisturbed
    /\ itrGen = "g1" /\ Under(store, itrGen, itrKind) = {} /\ yielded = <<>>

\* C2: a Close that has been called, in whatever state, returns, and when it
\* has returned the fetch goroutine has returned.
C2_CloseReturns ==
    /\ (clpc = "waiting") ~> (clpc = "returned")
    /\ [](clpc = "returned" => fpc = "done")

\* Close was called before any Next while fetch was blocked offering the first
\* entry of a listing of several pages, and has returned
C2_Witness ==
    /\ clpc = "returned"
    /\ closeAt = "select"
    /\ lastNext = "none" /\ cpc = "idle"
    /\ dropped = 2
    /\ taskErr = "errCanceled"

\* C3: a Next that is called once the context is done returns false.
C3_NextFalseAfterCancel ==
    (cpc = "idle" /\ lastNext # "none" /\ nextAfterCancel) => lastNext = "false"

\* Next was called after the cancellation and returned false while fetch was
\* still at its select with an entry in hand and more on the page
C3_Witness ==
    /\ cpc = "idle" /\ nextAfterCancel /\ lastNext = "false"
    /\ fpc = "select" /\ page # <<>>
    /\ Len(yielded) >= 1

\* C4: when a page request has failed and Next has returned false, Err()
\* returns that error.
C4_ErrAfterFailedPage ==
    (NextReturnedFalse /\ taskErr = "errList") => itrErr = "errList"

\* C5: when Close has returned, the context is done, fetch has returned, and
\* Close returned the error recorded on the iterator if there was one and
\* otherwise the error fetch returned: the listing error when a page failed.
C5_CloseReturnsFirstError ==
    clpc = "returned" =>
        /\ cancelled
        /\ fpc = "done"
        /\ closeResult = (IF closeErr # "nil" THEN closeErr ELSE taskErr)
        /\ (taskErr = "errList" => closeResult = "errList")

\* Close returned the error of a failed page request
C5_Witness == clpc = "returned" /\ closeResult = "errList" /\ Len(yielded) >= 1

\* C6: once the context is done, the LIST counter does not grow.
C6_NoListAfterCancel == [][cancelled => listCount' = listCount]_vars

\* C7: while the context is not done, fetch has brought to the channel at most
\* one entry more than Next has received.
C7_Backpressure == ~cancelled => offered <= Len(yielded) + 1

\* fetch holds the third entry of a listing while the consumer has two
C7_Witness == ~cancelled /\ fpc = "select" /\ offered = 3 /\ Len(yielded) = 2

\* (index, offset) of a is before that of b
PosLess(a, b) == a.index < b.index \/ (a.index = b.index /\ a.offset < b.offset)

\* the WAL positions stored under the generation the iterator is open on
PositionsPresent ==
    {p \in PoolPositions :
        \E b \in Under(store, itrGen, "wal") : b.name = FormatWALSegmentPath(p[1], p[2])}

\* C9: the WAL-segment iterator yields ascending (index, offset), and a whole
\* iteration yields every position present, whatever the number of pages.
C9_WALOrder ==
    itrKind = "wal" =>
        /\ \A i, j \in 1..Len(yielded) : i < j => PosLess(yielded[i], yielded[j])
        /\ (NextReturnedFalse /\ Undisturbed) =>
              {<<e.index, e.offset>> : e \in {yielded[i] : i \in 1..Len(yielded)}}
                  = PositionsPresent

\* (0,0), (0,4096), (1,0) and (10,255) yielded in that order over three pages
C9_Witness ==
    /\ itrKind = "wal" /\ NextReturnedFalse /\ Undisturbed
    /\ Len(yielded) = 4 /\ listCount = 3
    /\ <<yielded[1].index, yielded[1].offset>> = <<0, 0>>
    /\ <<yielded[2].index, yielded[2].offset>> = <<0, 4096>>
    /\ <<yielded[3].index, yielded[3].offset>> = <<1, 0>>
    /\ <<yielded[4].index, yielded[4].offset>> = <<10, 255>>

\* whether a name is one the path codec reads, for the kind of the iterator
Parses(n) ==
    IF itrKind = "snapshots" THEN ParseSnapshotPath(n).ok ELSE ParseWALSegmentPath(n).ok

\* the entry a blob with a name that parses stands for
EntryOf(b) ==
    IF itrKind = "snapshots"
    THEN SnapshotInfo(itrGen, ParseSnapshotPath(b.name).index, b.size)
    ELSE WALSegmentInfo(itrGen, ParseWALSegmentPath(b.name).index,
                        ParseWALSegmentPath(b.name).offset, b.size)

\* the blobs under the listed prefix whose names do not parse
Unparseable == {b \in Under(store, itrGen, itrKind) : ~Parses(b.name)}

\* fetch has been through the whole listing, and every entry it brought to
\* the channel was received
ListingDelivered == fpc = "done" /\ taskErr = "nil" /\ dropped = 0

\* C16: a name in the listing that does not parse is passed over: no error is
\* recorded for it and fetch does not end because of it; when the listing has
\* been delivered, Next has captured every entry that parses, those listed
\* before the name and those listed after it, and nothing for the name; and a
\* Close after a listing that went through returns nil.
C16_UnparseableSkipped ==
    (PathOk(itrGen) /\ Unparseable # {}) =>
        /\ itrErr = "nil"
        /\ taskErr \in {"nil", "errList", "errCanceled"}
        /\ (fpc = "done" /\ ~cancelled /\ taskErr # "errList") => taskErr = "nil"
        /\ ListingDelivered =>
              /\ \A b \in Under(store, itrGen, itrKind) \ Unparseable :
                    \E i \in 1..Len(yielded) : yielded[i] = EntryOf(b)
              /\ Len(yielded) = Cardinality(Under(store, itrGen, itrKind) \ Unparseable)
        /\ (clpc = "returned" /\ taskErr = "nil") => closeResult = "nil"

\* "00000005.tmp" was listed between the entries of index 0 and index 9: both
\* were yielded, Next returned false, Err() is nil and Close returned nil
C16_Witness ==
    /\ \E b \in Unparseable : b.name = TmpName
    /\ ListingDelivered /\ NextReturnedFalse
    /\ Len(yielded) >= 2 /\ yielded[1].index = 0 /\ yielded[2].index = 9
    /\ itrErr = "nil"
    /\ clpc = "returned" /\ closeResult = "nil"

\* C20: at every point, cancelled or not, the entries Next has captured are
\* the first entries of the listing that parse, in listing order: none is
\* missing, repeated or out of place; and fetch gives up an entry only when
\* the context is done, every entry it brought to the channel being either
\* captured, given up or still in its hand.
C20_YieldedIsPrefix ==
    /\ yielded # <<>> =>
          \A entries \in {ParseableEntries} :
              /\ Len(yielded) <= Len(entries)
              /\ yielded = SubSeq(entries, 1, Len(yielded))
    /\ dropped > 0 => cancelled
    /\ offered = Len(yielded) + dropped + (IF fpc = "select" THEN 1 ELSE 0)

\* the context was cancelled after the first entry of a listing of several
\* pages was captured; fetch gave up two later entries and has returned
C20_Witness ==
    /\ cancelled /\ fpc = "done"
    /\ Len(yielded) = 1 /\ dropped >= 2
    /\ Len(ParseableEntries) >= 4
    /\ yielded[1] = ParseableEntries[1]

\* the value Snapshot() / WALSegment() returns after the captures so far
LastCaptured(ys) == IF ys = <<>> THEN ZeroInfo(itrKind) ELSE ys[Len(ys)]

\* C21: once a Next has returned false, whether by exhaustion, by a failed
\* fetch or by cancellation, no later Next returns true: nothing more is
\* captured, and the value Snapshot() / WALSegment() returns stays the last
\* one a true-returning Next captured (the zero value if there was none).
C21_NextFalseAbsorbing ==
    [][lastNext = "false" =>
          /\ lastNext' = "false"
          /\ yielded' = yielded
          /\ itrInfo' = itrInfo
          /\ itrInfo' = LastCaptured(yielded')
      ]_vars

\* after a listing was consumed whole and Next returned false, with the
\* context not done, another Next was called and returned false; the current
\* value is the last entry captured
C21_Witness ==
    /\ cpc = "idle" /\ nextAfterFalse /\ lastNext = "false"
    /\ ~cancelled /\ taskErr = "nil"
    /\ Len(yielded) >= 2
    /\ itrInfo = yielded[Len(yielded)]

\* Next returned false by cancellation with fetch still holding an entry,
\* then again on a later call
C21_WitnessCancelled ==
    /\ cpc = "idle" /\ nextAfterFalse /\ lastNext = "false"
    /\ cancelled /\ ~chClosed /\ fpc = "select"
    /\ Len(yielded) >= 1

\* a page request came back with an error of the remote or the transport
RemoteFailed == taskErr = "errList"

\* a page request that was in flight when the context was cancelled was aborted
AbortedInFlight == taskErr = "errCanceled" /\ ~reqStale

CloseNilAfterLastPage ==
    (clpc = "returned" /\ PathOk(itrGen)) =>
        /\ closeResult = taskErr
        /\ closeResult = "nil" => ~NotDone(marker)
        /\ (closeAt = "done" /\ ~RemoteFailed /\ taskErr # "errCanceled") => closeResult = "nil"

\* the positions in a listing of the items whose names parse
ParseablePositions(items) ==
    {i \in 1..Len(items) : Parses(items[i].name)}

\* the page of a listing that holds the item at position i
PageOfPosition(i) == ((i - 1) \div PageSize) + 1

\* C23: when fetch has requested page k+1, every entry of the pages up to k
\* that parses has been captured by a Next or given up, and entries are given
\* up only once the context is done; while the context is not done and Next
\* has captured n entries, fetch has requested no page beyond the one that
\* holds the entry number n+1, if there is one.
C23_PageAfterPageConsumed ==
    PathOk(itrGen) =>
        \A ps \in {ParseablePositions(Listing(store, itrGen, itrKind))} :
            /\ Cardinality({i \in ps : PageOfPosition(i) < listCount})
                    <= Len(yielded) + dropped
            /\ dropped > 0 => cancelled
            /\ (~cancelled /\ Len(yielded) < Cardinality(ps)) =>
                  \E i \in ps :
                      /\ Cardinality({j \in ps : j <= i}) = Len(yielded) + 1
                      /\ listCount <= PageOfPosition(i)

\* two entries of the first page captured, fetch holds the first entry of the
\* second page, and the third page has not been requested
C23_Witness ==
    /\ ~cancelled /\ fpc = "select"
    /\ Len(yielded) = 2 /\ offered = 3
    /\ listCount = 2
    /\ Len(Listing(store, itrGen, itrKind)) = 5

-----------------------------------------------------------------------------
(* Properties of Init *)

\* C8: however many callers run Init concurrently, the handle is built at most
\* once and is the one stored from then on; an Init that returned nil left the
\* handle set, with exactly one construction; an Init that began with the
\* handle set returned nil.
C8_InitOnce ==
    /\ built <= 1
    /\ containerURL \in {0, built}
    /\ \A c \in Callers :
        /\ initRet[c] = "nil" => (containerURL = 1 /\ built = 1)
        /\ (ipc[c] = "idle" /\ calls[c] > 0 /\ initSawSet[c]) => initRet[c] = "nil"
        /\ (sasURLOk /\ ipc[c] = "idle" /\ calls[c] > 0) => initRet[c] = "nil"

\* two callers began their first Init before the handle was set, both have
\* returned nil, and one handle was built
C8_Witness ==
    /\ built = 1 /\ containerURL = 1
    /\ \E c, d \in Callers :
        /\ c # d
        /\ calls[c] = 1 /\ ~initSawSet[c] /\ ipc[c] = "idle" /\ initRet[c] = "nil"
        /\ calls[d] = 1 /\ ~initSawSet[d] /\ ipc[d] = "idle" /\ initRet[d] = "nil"

\* caller c's Init returns in this step
InitReturns(c) == ipc[c] # "idle" /\ ipc'[c] = "idle"

\* C19: an Init that fails returns the parse error and leaves the handle
\* unset and nothing built, as before the call; a later Init on the same
\* client does not return at the "already set" test but attempts again; and
\* a public operation called on a client whose Init fails returns that error
\* without a request: the container and the LIST counter are unchanged, no
\* iterator is opened and no deletion loop is entered.
C19_InitFailureLeavesUnset ==
    [][/\ \A c \in Callers :
            /\ (InitReturns(c) /\ initRet'[c] = "errParse") =>
                  /\ containerURL = 0 /\ containerURL' = 0
                  /\ built' = 0
                  /\ mu' = 0
            /\ (InitReturns(c) /\ initRet[c] = "errParse") =>
                  /\ ~initSawSet[c]
                  /\ initRet'[c] = "errParse"
       /\ ~sasURLOk =>
            /\ containerURL' = 0 /\ built' = 0
            /\ store' = store
            /\ listCount' = listCount
            /\ phase' # "iter" /\ fpc' = fpc
            /\ dpc' # "loop"
            /\ ret' # ret => ret'.err = <<"errParse">> /\ ret'.sent = 0
            /\ dpc' = "done" => dRet' = <<"errParse">>
      ]_vars

\* a caller's second Init has failed like its first, the handle is unset
C19_Witness ==
    \E c \in Callers :
        /\ calls[c] = 2 /\ ipc[c] = "idle" /\ initRet[c] = "errParse"
        /\ containerURL = 0

\* a public operation has returned Init's error on a container that holds
\* the blob it was called for
C19_WitnessOperation ==
    /\ ret.op = "DeleteSnapshot" /\ ret.args = <<Pos("g1", 0, 0)>>
    /\ ret.err = <<"errParse">> /\ ret.sent = 0
    /\ Exists(store, SnapshotKey("g1", 0))

\* the URL path names no container: it is empty or "/"
NoContainerSegment(p) == p \in {<<>>, <<Slash>>}

\* container is the first segment of the URL path p and path the rest of it,
\* without the slash between them
SegmentsOf(p, container, path) ==
    /\ SlashesIn(container) = {}
    /\ \/ TrimPrefix(p) = container /\ path = <<>>
       \/ TrimPrefix(p) = container \o <<Slash>> \o path

\* C25: NewReplicaClient, given a URL that parses, fails with "invalid SAS
\* URL format: missing container name" when the URL path is empty or "/", and
\* otherwise returns a client whose container is the first segment of the
\* path and whose path prefix is the rest, joined by "/" with no leading slash.
C25_NewReplicaClientSegments ==
    (ret.op = "NewReplicaClient" /\ sasURLOk) =>
        IF NoContainerSegment(ret.args[1])
        THEN ret.err = MissingContainer
        ELSE /\ ret.err = Nil
             /\ SegmentsOf(ret.args[1], ret.out[1], ret.out[2])

\* what does hold: given a URL that parses, NewReplicaClient returns no error,
\* whatever the path, with the first segment (possibly empty) as the container
NewReplicaClientNeverFails ==
    (ret.op = "NewReplicaClient" /\ sasURLOk) =>
        /\ ret.err = Nil
        /\ SegmentsOf(ret.args[1], ret.out[1], ret.out[2])
        /\ NoContainerSegment(ret.args[1]) => ret.out = <<<<>>, <<>>>>

-----------------------------------------------------------------------------
(* Properties of the snapshot operations *)

\* the snapshots of the iterator's generation acknowledged as written and not
\* deleted since
WrittenHere == {e \in written : e.generation = itrGen}

\* C10: after any sequence of WriteSnapshot and DeleteSnapshot calls, a fresh
\* Snapshots iterator consumed to exhaustion has yielded exactly one entry for
\* each index written and not deleted since, with the generation and index
\* written and the size of the last payload written there.
C10_SnapshotsRoundTrip ==
    (phase = "iter" /\ itrKind = "snapshots" /\ NextReturnedFalse /\ Undisturbed) =>
        /\ {yielded[i] : i \in 1..Len(yielded)} = WrittenHere
        /\ Len(yielded) = Cardinality(WrittenHere)

\* (g1, 0) holds 10 bytes and (g1, 10) holds 20, another generation holds a
\* snapshot as well, and the iterator over g1 has yielded the two and ended
C10_Witness ==
    /\ phase = "iter" /\ NextReturnedFalse /\ Undisturbed
    /\ yielded = <<SnapshotInfo("g1", 0, 10), SnapshotInfo("g1", 10, 20)>>
    /\ \E e \in written : e.generation = "g2"

\* everything written to g1 was deleted again and the iterator yields nothing:
\* the container holds a blob while g1 has none
C10_WitnessDeleted ==
    /\ phase = "iter" /\ NextReturnedFalse /\ Undisturbed
    /\ itrGen = "g1" /\ yielded = <<>> /\ store # {}

-----------------------------------------------------------------------------
(* Properties of DeleteGeneration and Generations *)

\* the blobs of the items DeleteGeneration has processed without error
DoneBlobs == {dDone[i].blob : i \in 1..Len(dDone)}

\* DeleteGeneration has returned nil
DeleteSucceeded == dpc = "done" /\ dRet = Nil

\* the names the Generations call returned
Reported == {ret.out[i] : i \in 1..Len(ret.out)}

\* C11: when DeleteGeneration(G) has returned nil and no other client wrote
\* under G while it ran, no blob is left under G, over one page or several,
\* and the Generations call that follows does not report G.
C11_DeleteGenerationEmpties ==
    (DeleteSucceeded /\ ~dWrote) =>
        /\ UnderGeneration(store, dGen) = {}
        /\ (phase = "end" /\ ret.err = Nil) => dGen \notin Reported

\* g1 held five blobs, listed in three pages and deleted; Generations, which
\* saw the directories "bad" and g2, reported g2
C11_Witness ==
    /\ DeleteSucceeded /\ ~dWrote /\ ~dLost
    /\ dGen = "g1" /\ Len(dDone) = 5 /\ listBase = 3
    /\ phase = "end" /\ ret.err = Nil /\ ret.out = <<"g2">>
    /\ Dirs(store) = {BadGeneration, "g2"}

\* a step of the DeleteGeneration call (the other clients change none of these)
DeleteStep == <<dpc, dGen, dMarker, dPage, dRet, dDone>>' # <<dpc, dGen, dMarker, dPage, dRet, dDone>>

\* C12: a Delete that comes back with "not found" or without error leaves the
\* item gone and the loop goes on with the next item; any other error of a
\* Delete is what DeleteGeneration returns at once, deleting nothing more; and
\* when it has returned, every item processed before is gone (unless another
\* client wrote it again).
C12_DeleteGenerationErrors ==
    /\ [][/\ (dDone' # dDone) =>
                /\ dDone' = Append(dDone, dDone'[Len(dDone')])
                /\ dDone'[Len(dDone')].blob = Head(dPage)
                /\ dDone'[Len(dDone')].notFound = (Head(dPage) \notin store)
                /\ store' = store \ {Head(dPage)}
                /\ dpc' = "items" /\ dPage' = Tail(dPage) /\ dRet' = Nil
          /\ (DeleteStep /\ dpc = "items" /\ dpc' = "done") =>
                /\ dRet' \in {<<"StorageError">>, <<"errTransport">>}
                /\ store' = store
                /\ dDone' = dDone
                /\ dPage' = dPage /\ dPage # <<>>
         ]_vars
    /\ []((dpc = "done" /\ ~dWrote) => DoneBlobs \cap store = {})

\* the first Delete deleted its blob, the second found its blob already gone
\* (another client had deleted it), the third failed: DeleteGeneration
\* returned that error and the blobs not yet processed are still there
C12_Witness ==
    /\ dpc = "done" /\ dRet = <<"errTransport">> /\ ~dWrote
    /\ Len(dDone) = 2 /\ ~dDone[1].notFound /\ dDone[2].notFound
    /\ Cardinality(UnderGeneration(store, dGen)) = 3
    /\ Head(dPage) \in store

\* C17: a step of DeleteGeneration(G1) removes nothing but blobs under G1 and
\* adds nothing, so the snapshots and WAL segments of another generation stay
\* as they are; and every entry an iterator over G1 yields is that of a blob
\* under G1, of the kind listed.
C17_OnlyOwnGeneration ==
    /\ [][DeleteStep =>
            /\ store' \subseteq store
            /\ \A b \in store \ store' : b.gen = dGen'
            /\ UnderGeneration(store', "g2") = UnderGeneration(store, "g2") \/ dGen' = "g2"
          ]_vars
    /\ [](phase = "iter" =>
            \A i \in 1..Len(yielded) :
                \E b \in UnderGeneration(store, itrGen) :
                    b.kind = itrKind /\ Parses(b.name) /\ yielded[i] = EntryOf(b))

\* DeleteGeneration(g1) has deleted the five blobs of g1 and returned nil; the
\* snapshot and the WAL segment of g2 are there
C17_Witness ==
    /\ DeleteSucceeded /\ dGen = "g1" /\ phase = "del"
    /\ \A i \in 1..Len(dDone) : ~dDone[i].notFound
    /\ Len(dDone) = 5
    /\ Cardinality(UnderGeneration(store, "g2")) = 2

\* an iterator over the snapshots of g1 has yielded its two entries while g2
\* holds a snapshot too
C17_WitnessIterator ==
    /\ phase = "iter" /\ itrGen = "g1" /\ itrKind = "snapshots"
    /\ Len(yielded) = 2
    /\ \E b \in UnderGeneration(store, "g2") : b.kind = "snapshots"

\* C18: the LIST counter grows by one for each page request, whatever the
\* page holds: by the number of pages of the directories after Generations,
\* by the number of pages of the blobs listed after a DeleteGeneration that
\* no other client interfered with, and by the number of pages of the listing
\* after an iterator was consumed to its end.
C18_ListOncePerPage ==
    /\ (phase = "end" /\ ret.op = "Generations" /\ ret.err = Nil) =>
          listCount - listBase = Pages(Cardinality(Dirs(store)))
    /\ (phase = "del" /\ DeleteSucceeded /\ ~dWrote /\ ~dLost) =>
          listCount - listBase = Pages(Len(dDone))
    /\ (phase = "iter" /\ PathOk(itrGen) /\ ListingDelivered /\ NextReturnedFalse) =>
          listCount - listBase = Pages(Cardinality(Under(store, itrGen, itrKind)))

\* Generations listed three directories in two pages after a DeleteGeneration
\* that had used one page
C18_Witness ==
    /\ phase = "end" /\ ret.op = "Generations" /\ ret.err = Nil
    /\ Cardinality(Dirs(store)) = 3
    /\ listBase = 1 /\ listCount = 3
    /\ dpc = "done"

\* an iterator was consumed to the end of a listing of two pages
C18_WitnessIterator ==
    /\ phase = "iter" /\ ListingDelivered /\ NextReturnedFalse
    /\ Cardinality(Under(store, itrGen, itrKind)) = 3
    /\ listCount = 2

\* the operation that opens an iterator of kind k
OpenerOf(k) == IF k = "snapshots" THEN "Snapshots" ELSE "WALSegments"

\* C24: Snapshots and WALSegments called with a malformed generation return
\* an iterator and no error; its fetch issues no page request (the LIST
\* counter stays where it was at the call), sends nothing and returns the
\* path error with the channel closed; no Next returns true, so the first
\* returns false; Err() is nil; and a Close that has returned has returned
\* the path error.
C24_MalformedGenerationIterator ==
    (phase = "iter" /\ itrGen = BadGeneration) =>
        /\ ret.op = OpenerOf(itrKind) /\ ret.err = Nil /\ ret.sent = 0
        /\ listCount = listBase
        /\ fpc \in {"start", "done"}
        /\ fpc = "done" => (taskErr = "errPath" /\ chClosed)
        /\ offered = 0 /\ yielded = <<>>
        /\ lastNext \in {"none", "false"}
        /\ itrErr = "nil"
        /\ clpc = "returned" => closeResult = "errPath"

\* WALSegments was called with a malformed generation on a container that
\* holds a blob under that name: the first Next returned false with the
\* context not done, then Close returned the path error
C24_Witness ==
    /\ phase = "iter" /\ itrGen = BadGeneration /\ itrKind = "wal"
    /\ ret.op = "WALSegments" /\ ret.err = Nil
    /\ cpc = "idle" /\ lastNext = "false" /\ ~nextAfterCancel
    /\ itrErr = "nil"
    /\ clpc = "returned" /\ closeResult = "errPath"
    /\ UnderGeneration(store, BadGeneration) # {}

\* the same for Snapshots, with Close called before any Next
C24_WitnessSnapshots ==
    /\ phase = "iter" /\ itrGen = BadGeneration /\ itrKind = "snapshots"
    /\ ret.op = "Snapshots" /\ ret.err = Nil
    /\ lastNext = "none"
    /\ clpc = "returned" /\ closeResult = "errPath"
    /\ listCount = 0

\* the kind of object operation each call makes
KindOf(op) ==
    IF op \in {"WriteSnapshot", "WriteWALSegment"} THEN "PUT"
    ELSE IF op \in {"SnapshotReader", "WALSegmentReader"} THEN "GET"
    ELSE "DELETE"

ObjectOperations ==
    {"WriteSnapshot", "WriteWALSegment", "SnapshotReader", "WALSegmentReader",
     "DeleteSnapshot", "DeleteWALSegments"}

\* the Deletes a DeleteGeneration call has attempted: those that came back
\* without error or with "not found", and the one that failed, if one did
DeletesAttempted ==
    Len(dDone) + (IF dpc = "done" /\ dRet \in {<<f>> : f \in Failures} THEN 1 ELSE 0)

\* C26: every object operation attempted against the remote is counted once
\* under its kind, whatever its outcome: after a call of a write, a reader or
\* a delete operation the counter of its kind has grown by the number of
\* requests the call sent and the other counters by nothing, and during and
\* after a DeleteGeneration the DELETE counter has grown by the number of
\* Deletes attempted.
C26_CountedOncePerAttempt ==
    /\ ret.op \in ObjectOperations =>
          counted = [NoCounts EXCEPT ![KindOf(ret.op)] = ret.sent]
    /\ (phase = "del" /\ dpc # "idle") =>
          counted = [NoCounts EXCEPT !.DELETE = DeletesAttempted]

\* what does hold: DELETE is counted once per Delete attempted, whatever the
\* outcome; PUT and GET are counted once per upload and per download that
\* succeeded, and not at all for one that failed
CountedDeletesAndSuccesses ==
    /\ ret.op \in ObjectOperations =>
          counted = [NoCounts EXCEPT ![KindOf(ret.op)] =
                        IF KindOf(ret.op) = "DELETE" THEN ret.sent
                        ELSE IF ret.err = Nil THEN 1 ELSE 0]
    /\ (phase = "del" /\ dpc # "idle") =>
          counted = [NoCounts EXCEPT !.DELETE = DeletesAttempted]

-----------------------------------------------------------------------------
(* Properties of the operations on single blobs *)

\* the blobs of s at the first n positions of the list a
AtPositions(s, a, n) == {b \in s : \E i \in 1..n : HasKey(b, WALSegmentKey(a[i]))}

\* C13: DeleteWALSegments takes the positions in list order; a position whose
\* blob is absent is answered "not found" and skipped; the first other error
\* is returned (wrapped), and then exactly the blobs at the positions before
\* it are gone and those at the failing and later positions are as they were;
\* when it returns nil, no blob is left at any listed position.
C13_DeleteWALSegmentsInOrder ==
    /\ [][ret'.op = "DeleteWALSegments" =>
            /\ ret'.sent = Len(ret'.resp) /\ ret'.sent <= Len(ret'.args)
            /\ \A i \in 1..ret'.sent :
                  ret'.resp[i] \notin Failures =>
                     ret'.resp[i] = (IF Exists(store, WALSegmentKey(ret'.args[i]))
                                     THEN "nil" ELSE "BlobNotFound")
            /\ \A i \in 1..(ret'.sent - 1) : ret'.resp[i] \notin Failures
            /\ ret'.err = Nil =>
                  /\ ret'.sent = Len(ret'.args)
                  /\ \A i \in 1..ret'.sent : ret'.resp[i] \notin Failures
                  /\ store' = store \ AtPositions(store, ret'.args, Len(ret'.args))
            /\ (ret'.err # Nil /\ ret'.err[1] = "cannot delete wal segment") =>
                  /\ ret'.sent >= 1
                  /\ ret'.resp[ret'.sent] \in Failures
                  /\ ret'.err = Wrap("cannot delete wal segment", <<ret'.resp[ret'.sent]>>)
                  /\ store' = store \ AtPositions(store, ret'.args, ret'.sent - 1)
            /\ (ret'.sent < Len(ret'.args)
                   /\ \A i \in 1..ret'.sent : ret'.resp[i] \notin Failures) =>
                  /\ ret'.err # Nil /\ ret'.err[1] = "cannot determine wal segment path"
                  /\ store' = store \ AtPositions(store, ret'.args, ret'.sent)
          ]_vars
    /\ []((ret.op = "DeleteWALSegments" /\ ret.err = Nil) =>
              AtPositions(store, ret.args, Len(ret.args)) = {})

\* of three positions, the blob at the first was deleted, the Delete at the
\* second failed and was returned, and the blobs at the second and third are
\* still there
C13_Witness ==
    /\ ret.op = "DeleteWALSegments"
    /\ ret.args = <<Pos("g1", 0, 0), Pos("g1", 0, 4096), Pos("g1", 1, 0)>>
    /\ ret.resp = <<"nil", "errTransport">>
    /\ ret.err = Wrap("cannot delete wal segment", <<"errTransport">>)
    /\ ~Exists(store, WALSegmentKey(ret.args[1]))
    /\ Exists(store, WALSegmentKey(ret.args[2]))
    /\ Exists(store, WALSegmentKey(ret.args[3]))

\* the blob at the second of three positions was absent: the call skipped it,
\* deleted the other two and returned nil
C13_WitnessSkipped ==
    /\ ret.op = "DeleteWALSegments" /\ ret.err = Nil
    /\ ret.resp = <<"nil", "BlobNotFound", "nil">>

\* the key a snapshot call was made for
CalledKey(c) == SnapshotKey(c.args[1].generation, c.args[1].index)

\* C14: DeleteSnapshot removes at most the blob at the key of (generation,
\* index) and nothing else; on a key that is absent it returns nil and leaves
\* the container as it is; a second call right after a successful one returns
\* nil as well and changes nothing.
C14_DeleteSnapshotIdempotent ==
    [][ret'.op = "DeleteSnapshot" =>
        /\ store' \subseteq store
        /\ \A b \in store \ store' : HasKey(b, CalledKey(ret'))
        /\ ret'.err = Nil => ~Exists(store', CalledKey(ret'))
        /\ (ret'.sent = 1 /\ ~Exists(store, CalledKey(ret')) /\ ret'.resp[1] \notin Failures) =>
              /\ ret'.resp = <<"BlobNotFound">>
              /\ ret'.err = Nil
              /\ store' = store
        /\ (ret.op = "DeleteSnapshot" /\ ret.args = ret'.args /\ ret.err = Nil
                /\ ret'.sent = 1 /\ ret'.resp[1] \notin Failures) =>
              /\ ret'.err = Nil
              /\ store' = store
      ]_vars

\* DeleteSnapshot was called for an absent key of g1: the remote answered "not
\* found", the call returned nil, and the other blobs are there
C14_Witness ==
    /\ ret.op = "DeleteSnapshot" /\ ret.args = <<Pos("g1", 0, 0)>>
    /\ ret.resp = <<"BlobNotFound">> /\ ret.err = Nil
    /\ OpsOthers \subseteq store

\* the key a reader was called for
ReaderKey(c) ==
    IF c.op = "SnapshotReader" THEN CalledKey(c) ELSE WALSegmentKey(c.args[1])

\* C15: SnapshotReader and WALSegmentReader return os.ErrNotExist exactly when
\* the remote answered that the blob at the key is not found (and then it is
\* absent); any other error of the remote is returned wrapped, which is not
\* os.ErrNotExist; and the container is unchanged in every case.
C15_ReadersNotExist ==
    [][ret'.op \in {"SnapshotReader", "WALSegmentReader"} =>
        /\ store' = store
        /\ (ret'.err = ErrNotExist) <=> (ret'.sent = 1 /\ ret'.resp = <<"BlobNotFound">>)
        /\ ret'.sent = 1 =>
              /\ ret'.resp = <<"BlobNotFound">> => ~Exists(store, ReaderKey(ret'))
              /\ ret'.resp[1] \notin Failures =>
                    (ret'.resp = <<"BlobNotFound">> <=> ~Exists(store, ReaderKey(ret')))
              /\ ret'.resp[1] \in Failures =>
                    ret'.err = Wrap("cannot start new reader", <<ret'.resp[1]>>)
              /\ (ret'.err = Nil) <=> (ret'.resp = <<"nil">>)
      ]_vars

\* a reader of an absent WAL segment returned os.ErrNotExist
C15_Witness ==
    /\ ret.op = "WALSegmentReader" /\ ret.args = <<Pos("g1", 0, 4096)>>
    /\ ret.resp = <<"BlobNotFound">> /\ ret.err = ErrNotExist

\* a reader of a snapshot that is there returned the wrapped error of the remote
C15_WitnessWrapped ==
    /\ ret.op = "SnapshotReader"
    /\ Exists(store, CalledKey(ret))
    /\ ret.err = Wrap("cannot start new reader", <<"StorageError">>)

====
